---- MODULE Spec2Model ----
(***************************************************************************)
(* A state-machine model of cmd/bzip2/main.go: the dispatcher of main()    *)
(* (one goroutine per argument, a counting gate, a wait group, a shared    *)
(* failure flag), processFile() (flag checks, output-path resolution, the  *)
(* overwrite policy, the pipe between a producer goroutine and the         *)
(* consumer, the removal of the original) and the file system they act on. *)
(*                                                                         *)
(* Strings are sequences of one-character strings, so that the string      *)
(* functions of the source (HasSuffix, path.Split, SplitN, Join) are       *)
(* computed as the source computes them.                                   *)
(***************************************************************************)
EXTENDS Integers, Sequences, FiniteSets, TLC

VARIABLES
    flag,       \* the command-line flags after getopt.Parse and main's prelude
    files,      \* the argument list (after the default to <<"-">>)
    stdin,      \* the global `stdin`: TRUE only when the argument list was empty
    fs,         \* file system: existing path |-> [kind, ino]
    idata,      \* inode |-> content (a sequence of byte tokens)
    stdinData,  \* bytes of standard input not read yet
    disk0,      \* the disk the run started on (never changes)
    faulty,     \* whether system calls may fail with an I/O error in this run
    launched,   \* how many job goroutines main's loop has started
    jpc,        \* job goroutine |-> position in the func literal of main
    jwalk,      \* job goroutine |-> paths filepath.Walk still has to visit
    jfailed,    \* job goroutine |-> it has met an error (err != nil, a directory without -r)
    jexits,     \* job goroutine |-> how many times it has run wg.Done
    sem,        \* number of tokens in the channel `sem`
    mu,         \* holder of the mutex `mu` (0: free)
    wg,         \* counter of the wait group
    hasErrors,  \* the shared failure flag
    exitCode,   \* [exited, status]: whether the process has exited, and how
    pf,         \* job goroutine |-> frame of its current processFile call
    ncalls,     \* job goroutine |-> number of processFile calls it has made
    prods,      \* job goroutine |-> its producer goroutines with their pipes
    effects,    \* job goroutine |-> the system calls it made that touch a path
    stdoutLog,  \* the writes made to standard output, in order
    stderr,     \* lines written to the diagnostic stream
    rin,        \* input of the path-resolution check (SpecPath)
    rout,       \* its result
    round       \* which run of a compress-then-decompress pair this is, and
                \* the bytes the pair started from (SpecRound)

vars == << flag, files, stdin, disk0, faulty, fs, idata, stdinData, launched, jpc, jwalk,
           jfailed, jexits, sem, mu, wg, hasErrors, exitCode, pf, ncalls,
           prods, effects, stdoutLog, stderr, rin, rout, round >>

cfgVars  == << flag, files, stdin, disk0, faulty, rin, rout, round >>
diskVars == << fs, idata >>
syncVars == << sem, mu, wg, hasErrors, exitCode, launched >>
jobVars  == << jpc, jwalk, jfailed, jexits >>
callVars == << pf, ncalls, prods >>
ioVars   == << stdinData, stdoutLog, stderr, effects >>

(***************************************************************************)
(* Strings                                                                 *)
(***************************************************************************)
\* strings.HasSuffix
HasSuffix(s, suf) ==
    /\ Len(s) >= Len(suf)
    /\ SubSeq(s, Len(s) - Len(suf) + 1, Len(s)) = suf

\* strings.Index for a one-character separator; 0 when absent (Go: -1)
Index(s, c) ==
    IF \E i \in 1..Len(s) : s[i] = c
    THEN CHOOSE i \in 1..Len(s) : s[i] = c /\ \A j \in 1..(i-1) : s[j] # c
    ELSE 0

\* strings.LastIndex for a one-character separator; 0 when absent
LastIndex(s, c) ==
    IF \E i \in 1..Len(s) : s[i] = c
    THEN CHOOSE i \in 1..Len(s) : s[i] = c /\ \A j \in (i+1)..Len(s) : s[j] # c
    ELSE 0

\* path.Split: everything up to and including the last slash, and the rest
PathSplit(p) ==
    LET i == LastIndex(p, "/")
    IN  << SubSeq(p, 1, i), SubSeq(p, i + 1, Len(p)) >>

\* strings.SplitN(s, sep, n) for n >= 0: at most n pieces, the last one the
\* unsplit remainder; n = 0 gives no piece at all
RECURSIVE SplitN(_, _, _)
SplitN(s, sep, n) ==
    IF n = 0 THEN << >>
    ELSE IF n = 1 THEN << s >>
    ELSE LET m == Index(s, sep)
         IN  IF m = 0 THEN << s >>
             ELSE << SubSeq(s, 1, m - 1) >>
                    \o SplitN(SubSeq(s, m + 1, Len(s)), sep, n - 1)

\* strings.Join
RECURSIVE Join(_, _)
Join(parts, sep) ==
    IF Len(parts) = 0 THEN << >>
    ELSE IF Len(parts) = 1 THEN parts[1]
    ELSE parts[1] \o << sep >> \o Join(Tail(parts), sep)

Dot == << "." >>
DotOut == << ".", "o", "u", "t" >>
Dash == << "-" >>
DefaultSuffix == << "b", "z", "2" >>

(***************************************************************************)
(* Output-path resolution of processFile, lines 140-170                    *)
(***************************************************************************)
\* the name left when the last dot-separated piece of the file name is cut
StripLastPiece(outFileName) ==
    LET nstr == SplitN(outFileName, ".", Len(outFileName))
    IN  Join(SubSeq(nstr, 1, Len(nstr) - 1), ".")

\* decompress: which of the three branches the file name takes
DecompressBranch(outFileName, fext) ==
    IF HasSuffix(outFileName, fext)
    THEN IF Len(outFileName) > Len(fext) THEN "strip" ELSE "cantstrip"
    ELSE "dotout"

\* lines 158-161: decompress of a name without the suffix writes two lines
\* to os.Stderr before it settles for name.out
ResolveWarns(inFilePath, suffix, decompress) ==
    /\ suffix # << >>
    /\ decompress
    /\ DecompressBranch(PathSplit(inFilePath)[2], Dot \o suffix) = "dotout"

\* compress: the input is refused when it already carries the suffix
CompressRefusedNever(inFilePath, fext) == FALSE

CompressRefused(inFilePath, fext) == HasSuffix(inFilePath, fext)

\* [err, out]: err is "none" or the error processFile returns
ResolveOutput(inFilePath, suffix, decompress) ==
    IF suffix = << >> THEN [err |-> "emptysuffix", out |-> << >>]
    ELSE
    LET fext == Dot \o suffix
        sp == PathSplit(inFilePath)
        outFileDir == sp[1]
        outFileName == sp[2]
    IN  IF decompress
        THEN CASE DecompressBranch(outFileName, fext) = "strip" ->
                    [err |-> "none", out |-> outFileDir \o StripLastPiece(outFileName)]
               [] DecompressBranch(outFileName, fext) = "cantstrip" ->
                    [err |-> "cantstrip", out |-> << >>]
               [] OTHER ->
                    [err |-> "none", out |-> outFileDir \o outFileName \o DotOut]
        ELSE IF CompressRefused(inFilePath, fext)
             THEN [err |-> "hassuffix", out |-> << >>]
             ELSE [err |-> "none", out |-> inFilePath \o Dot \o suffix]

(***************************************************************************)
(* The codec, a black box: an invertible streaming transform.  A stream is *)
(* a header, one encoded token per input token, and a trailer.             *)
(***************************************************************************)
Bytes == { "x", "y" }
BZh == "BZh"
EOS == "EOS"
\* the zero byte a file holds where nothing was written below its end
Hole == "0"

\* tokens a file can hold before it is encoded
PlainTokens == Bytes \cup { BZh, EOS, "zx", "zy", Hole }

EncByte(t) == "z" \o t

IsEncoded(t) == \E u \in PlainTokens : EncByte(u) = t

DecByte(t) == CHOOSE u \in PlainTokens : EncByte(u) = t

EncodeBody(data) == [n \in 1..Len(data) |-> EncByte(data[n])]

\* a whole stream, as bzip2.Writer produces it between NewWriter and Close
Encode(data) == << BZh >> \o EncodeBody(data) \o << EOS >>

\* bzip2.Reader fed with more input: [st, out, bad]
RECURSIVE DecodeFeed(_, _, _)
DecodeFeed(st, toks, out) ==
    IF toks = << >> THEN [st |-> st, out |-> out, bad |-> FALSE]
    ELSE LET t == Head(toks)
         IN  CASE st \in { "hdr", "end" } /\ t = BZh ->
                    DecodeFeed("body", Tail(toks), out)
               [] st = "body" /\ t = EOS ->
                    DecodeFeed("end", Tail(toks), out)
               [] st = "body" /\ IsEncoded(t) ->
                    DecodeFeed("body", Tail(toks), Append(out, DecByte(t)))
               [] OTHER -> [st |-> st, out |-> out, bad |-> TRUE]

\* the input may end here without an unexpected-EOF error
DecodeMayEnd(st) == st = "end"

(***************************************************************************)
(* Bounds of the model                                                     *)
(***************************************************************************)
MaxCores == 2      \* budgets 1..MaxCores stand for the accepted 1..32
MaxArgs == 2       \* longest argument list of Spec
MaxDirArgs == 1    \* directory arguments in one argument list of Spec
ChunkSize == 1     \* tokens moved by one read of io.Copy
BlockSize == 2     \* tokens the encoder buffers before it emits a block
MaxPathLen == 4    \* longest input path of SpecPath
MaxSuffixLen == 2  \* longest suffix of SpecPath
MaxDataLen == 3    \* longest input of SpecRound, in tokens
MaxLevel == 2      \* levels 1..MaxLevel stand for the accepted 1..9

(***************************************************************************)
(* The file system                                                         *)
(***************************************************************************)
Ino(j, k) == [job |-> j, call |-> k]
NoIno == Ino(0, 0)

pA  == << "a" >>
pAz == << "a", ".", "b", "z", "2" >>
pD  == << "d" >>
pDa == << "d", "/", "a" >>
pDb == << "d", "/", "b" >>

PlainData == << "x", "y" >>
GoodData == Encode(<< "y" >>)
CorruptData == << BZh, "zx" >>

Content(kind) ==
    CASE kind = "plain" -> PlainData
      [] kind = "good" -> GoodData
      [] kind = "corrupt" -> CorruptData
      [] OTHER -> << >>

\* the inode a path of the initial disk has
InitIno(p) ==
    CASE p = pA -> Ino(0, 1)
      [] p = pAz -> Ino(0, 2)
      [] p = Dash -> Ino(0, 3)
      [] p = pD -> Ino(0, 4)
      [] p = pDa -> Ino(0, 5)
      [] OTHER -> Ino(0, 6)

\* a disk: what each candidate path is ("absent", "plain", "good", "corrupt",
\* "dir"); the directory d always holds d/a, plain, and d/b, compressed
DiskPaths == { pA, pAz, Dash, pD, pDa, pDb }

DiskOf(ka, kz, kdash) ==
    [p \in DiskPaths |->
        CASE p = pA -> ka
          [] p = pAz -> kz
          [] p = Dash -> kdash
          [] p = pD -> "dir"
          [] p = pDb -> "good"
          [] OTHER -> "plain"]

FsOf(disk) ==
    [p \in { q \in DiskPaths : disk[q] # "absent" } |->
        [kind |-> IF disk[p] = "dir" THEN "dir" ELSE "file", ino |-> InitIno(p)]]

IdataOf(disk) ==
    [n \in { InitIno(q) : q \in { r \in DiskPaths : disk[r] # "absent" } } |->
        LET p == CHOOSE q \in DiskPaths : InitIno(q) = n IN Content(disk[p])]

Exists(f, p) == p \in DOMAIN f

IsDir(f, p) == p \in DOMAIN f /\ f[p].kind = "dir"

\* the entries directly under directory d
Children(f, d) ==
    { p \in DOMAIN f :
        /\ Len(p) > Len(d) + 1
        /\ SubSeq(p, 1, Len(d) + 1) = d \o << "/" >>
        /\ \A n \in (Len(d) + 2)..Len(p) : p[n] # "/" }

FsRemove(f, p) == [q \in (DOMAIN f) \ { p } |-> f[q]]

FsAdd(f, p, n) == [q \in (DOMAIN f) \cup { p } |->
                      IF q = p THEN [kind |-> "file", ino |-> n] ELSE f[q]]

\* write(2) on a descriptor at offset off, opened without O_APPEND: the data
\* replace what the file holds from off on, and a file shorter than off is
\* filled with zero bytes up to off
WriteAt(content, off, data) ==
    LET padded == IF Len(content) >= off THEN content
                  ELSE content \o [n \in 1..(off - Len(content)) |-> Hole]
    IN  SubSeq(padded, 1, off) \o data
            \o SubSeq(padded, off + Len(data) + 1, Len(padded))

IdataSet(d, n, data) == [m \in (DOMAIN d) \cup { n } |-> IF m = n THEN data ELSE d[m]]

\* os.Remove succeeds on a file and on an empty directory
Removable(f, p) == Exists(f, p) /\ (IsDir(f, p) => Children(f, p) = { })

\* byte order of the characters the paths are made of
CharOrd(c) ==
    CASE c = "-" -> 45 [] c = "." -> 46 [] c = "/" -> 47 [] c = "2" -> 50
      [] c = "a" -> 97 [] c = "b" -> 98 [] c = "d" -> 100 [] c = "o" -> 111
      [] c = "t" -> 116 [] c = "u" -> 117 [] c = "z" -> 122 [] OTHER -> 0

RECURSIVE LexLess(_, _)
LexLess(s, t) ==
    IF t = << >> THEN FALSE
    ELSE IF s = << >> THEN TRUE
    ELSE IF CharOrd(Head(s)) # CharOrd(Head(t))
         THEN CharOrd(Head(s)) < CharOrd(Head(t))
         ELSE LexLess(Tail(s), Tail(t))

\* readDirNames sorts the names it returns
RECURSIVE SortedSeq(_)
SortedSeq(S) ==
    IF S = { } THEN << >>
    ELSE LET m == CHOOSE p \in S : \A q \in S \ { p } : LexLess(p, q)
         IN  << m >> \o SortedSeq(S \ { m })

(***************************************************************************)
(* Frames of processFile and of its producer goroutine                     *)
(***************************************************************************)
NoFrame ==
    [pc |-> "none", path |-> << >>, out |-> << >>, pk |-> 0,
     okind |-> "none", oino |-> NoIno, ikind |-> "none", iino |-> NoIno,
     ioff |-> 0, ooff |-> 0, dec |-> "hdr", err |-> "none"]

\* processFile(inFilePath) is entered
Frame(inFilePath) == [NoFrame EXCEPT !.pc = "begin", !.path = inFilePath]

\* processFile returns err; the deferred Close of the files it opened runs
Ret(fr, err) ==
    [fr EXCEPT !.pc = "ret", !.err = err,
               !.okind = IF @ = "file" THEN "closed" ELSE @,
               !.ikind = IF @ = "file" THEN "closed" ELSE @]

\* an error the dispatcher met itself, kept until it is logged
Failure(path, err) == [NoFrame EXCEPT !.pc = "ret", !.path = path, !.err = err]

\* io.Pipe(), the mutex logMu of this call (line 192), and the goroutine
\* started by `go func()`, lines 190-216, 249-291
Producer(call, inFilePath) ==
    [call |-> call, path |-> inFilePath, pc |-> "open", logMu |-> FALSE,
     ikind |-> "none", iino |-> NoIno, ioff |-> 0,
     zbuf |-> << >>, zhdr |-> FALSE, zin |-> 0, zout |-> 0,
     buf |-> << >>, wclosed |-> FALSE, werr |-> "none",
     rclosed |-> FALSE, cres |-> "none"]

Effect(op, path, call) == [op |-> op, path |-> path, call |-> call]

\* the two lines of lines 158-161, as job i writes them in its call `call`
NoSuffixLines(i, call, inFilePath) ==
    { [job |-> i, call |-> call, path |-> inFilePath, kind |-> k] :
        k \in { "nosuffix", "cantguess" } }

(***************************************************************************)
(* Decisions of main and processFile                                       *)
(***************************************************************************)
\* sem <- struct{}{} on a channel of capacity *cores, lines 413, 421
GateHasRoomOffByOne(held, capacity) == held <= capacity

GateHasRoom(held, capacity) == held < capacity

\* <-sem, line 422: the token is taken back out of the channel
ReleasedLeaks(held) == held

Released(held) == held - 1

\* lines 484-486
ExitStatusAlwaysZero(failed) == 0

ExitStatus(failed) == IF failed THEN 1 ELSE 0

\* lines 75-83
FlagConflict(fl) ==
    IF fl.stdout /\ fl.suffixSet THEN "stdout set, suffix not used"
    ELSE IF fl.stdout /\ fl.force THEN "stdout set, force not used"
    ELSE IF fl.stdout /\ fl.keep THEN "stdout set, keep is redundant"
    ELSE "none"

\* line 88
TestBranchSkipped(fl) == FALSE

TestBranch(fl) == fl.test

\* line 119: the global, not the path, selects the standard-input branch
StdinBranch(inFilePath, stdinGlobal) == stdinGlobal

\* lines 174-185: what follows the Lstat of the output path
OverwriteForced(f, out, force) ==
    IF ~Exists(f, out) THEN "spawn"
    ELSE IF IsDir(f, out) THEN "outFile is a directory"
    ELSE "rmOut"

OverwriteStep(f, out, force) ==
    IF ~Exists(f, out) THEN "spawn"
    ELSE IF ~force THEN "outFile exists"
    ELSE IF IsDir(f, out) THEN "outFile is a directory"
    ELSE "rmOut"

\* line 314
ShouldRemoveInputIgnoresKeep(fl, inFilePath) == ~fl.stdout /\ inFilePath # Dash

ShouldRemoveInput(fl, inFilePath) == ~fl.stdout /\ ~fl.keep /\ inFilePath # Dash

\* lines 239-241, 308-310: io.Copy's error ends processFile
CopyErrorIgnored(err) == FALSE

CopyFailed(err) == err # "none"

(***************************************************************************)
(* Initial states: main up to line 413                                     *)
(***************************************************************************)
Flags(t, d, c, f, k, v, r, suffix, suffixSet, cores) ==
    [test |-> t, decompress |-> d, stdout |-> c, force |-> f, keep |-> k,
     verbose |-> v, recursive |-> r, suffix |-> suffix, suffixSet |-> suffixSet,
     cores |-> cores, level |-> 1]

\* -S: not given, given as "z", given as ""
SuffixChoices == { << DefaultSuffix, FALSE >>, << << "z" >>, TRUE >>, << << >>, TRUE >> }

RECURSIVE SeqsUpTo(_, _)
SeqsUpTo(S, n) ==
    IF n = 0 THEN { << >> }
    ELSE LET shorter == SeqsUpTo(S, n - 1)
         IN  shorter \cup { Append(q, e) : q \in shorter, e \in S }

\* a run that is not the first of a compress-then-decompress pair
NoRound == [pass |-> 0, data |-> << >>, first |-> 0]

PathResetVars == rin = [path |-> << >>, suffix |-> << >>, decompress |-> FALSE]
                 /\ rout = [state |-> "unused", err |-> "none", out |-> << >>]
                 /\ round = NoRound

InitWith(argLists, flagSets, disks, ttys, inputs, faults) ==
    \E args \in argLists, fl \in flagSets, disk \in disks, tty \in ttys,
       input \in inputs :
        /\ faulty \in faults
        /\ disk0 = disk
        /\ files = IF args = << >> THEN << Dash >> ELSE args
        /\ stdin = (args = << >>)
        /\ flag = [fl EXCEPT !.stdout = fl.stdout \/ (~tty /\ args = << >>)]
        /\ fs = FsOf(disk)
        /\ idata = IdataOf(disk)
        /\ stdinData = input
        /\ launched = 0
        /\ LET n == IF args = << >> THEN 1 ELSE Len(args)
           IN  /\ jpc = [i \in 1..n |-> "idle"]
               /\ jwalk = [i \in 1..n |-> << >>]
               /\ jfailed = [i \in 1..n |-> FALSE]
               /\ jexits = [i \in 1..n |-> 0]
               /\ pf = [i \in 1..n |-> NoFrame]
               /\ ncalls = [i \in 1..n |-> 0]
               /\ prods = [i \in 1..n |-> << >>]
               /\ effects = [i \in 1..n |-> { }]
        /\ sem = 0
        /\ mu = 0
        /\ wg = 0
        /\ hasErrors = FALSE
        /\ exitCode = [exited |-> FALSE, status |-> 0]
        /\ stdoutLog = << >>
        /\ stderr = { }
        /\ PathResetVars

Jobs == 1..Len(files)

\* the outcomes of a system call that may fail for a reason the model does not
\* hold (permissions, a full disk, a read error)
Outcomes == IF faulty THEN BOOLEAN ELSE { TRUE }

Running == ~exitCode.exited

(***************************************************************************)
(* main, lines 415-486                                                     *)
(***************************************************************************)
\* one turn of the loop: wg.Add(1); go func(f string) {...}(file)
Launch ==
    /\ Running
    /\ launched < Len(files)
    /\ launched' = launched + 1
    /\ wg' = wg + 1
    /\ jpc' = [jpc EXCEPT ![launched + 1] = "acquire"]
    /\ UNCHANGED << cfgVars, diskVars, callVars, ioVars, sem, mu, hasErrors,
                    exitCode, jwalk, jfailed, jexits >>

\* sem <- struct{}{}, line 421
Acquire(i) ==
    /\ Running
    /\ jpc[i] = "acquire"
    /\ GateHasRoom(sem, flag.cores)
    /\ sem' = sem + 1
    /\ jpc' = [jpc EXCEPT ![i] = "dispatch"]
    /\ UNCHANGED << cfgVars, diskVars, callVars, ioVars, mu, wg, hasErrors,
                    exitCode, launched, jwalk, jfailed, jexits >>

\* lines 424-479 up to the first call or error: "-" goes to processFile at
\* once; any other argument is checked with os.Stat first
Dispatch(i) ==
    LET file == files[i]
        call == Frame(file)
    IN
    /\ Running
    /\ jpc[i] = "dispatch"
    /\ IF file = Dash
       THEN /\ pf' = [pf EXCEPT ![i] = call]
            /\ ncalls' = [ncalls EXCEPT ![i] = @ + 1]
            /\ jpc' = [jpc EXCEPT ![i] = "callStdin"]
            /\ UNCHANGED << effects, hasErrors, stderr, jfailed, jwalk >>
       ELSE /\ effects' = [effects EXCEPT ![i] = @ \cup { Effect("stat", file, 0) }]
            /\ IF ~Exists(fs, file)
               THEN \* lines 434-438: logged and flagged without the mutex
                    /\ stderr' = stderr \cup { [job |-> i, call |-> 0, path |-> file,
                                                kind |-> "stat"] }
                    /\ hasErrors' = TRUE
                    /\ jfailed' = [jfailed EXCEPT ![i] = TRUE]
                    /\ jpc' = [jpc EXCEPT ![i] = "release"]
                    /\ UNCHANGED << pf, ncalls, jwalk >>
               ELSE IF IsDir(fs, file)
               THEN IF flag.recursive
                    THEN /\ jwalk' = [jwalk EXCEPT ![i] = << file >>]
                         /\ jpc' = [jpc EXCEPT ![i] = "walk"]
                         /\ UNCHANGED << pf, ncalls, hasErrors, stderr, jfailed >>
                    ELSE /\ pf' = [pf EXCEPT ![i] =
                                      Failure(file, "is a directory (use -r)")]
                         /\ jpc' = [jpc EXCEPT ![i] = "lockF"]
                         /\ jfailed' = [jfailed EXCEPT ![i] = TRUE]
                         /\ UNCHANGED << ncalls, jwalk, hasErrors, stderr >>
               ELSE /\ pf' = [pf EXCEPT ![i] = call]
                    /\ ncalls' = [ncalls EXCEPT ![i] = @ + 1]
                    /\ jpc' = [jpc EXCEPT ![i] = "callFile"]
                    /\ UNCHANGED << jwalk, hasErrors, stderr, jfailed >>
    /\ UNCHANGED << cfgVars, diskVars, prods, stdinData, stdoutLog, sem, mu, wg,
                    exitCode, launched, jexits >>

\* lines 425-430: processFile("-") has returned
RetStdin(i) ==
    /\ Running
    /\ jpc[i] = "callStdin"
    /\ pf[i].pc = "ret"
    /\ IF pf[i].err # "none"
       THEN /\ stderr' = stderr \cup { [job |-> i, call |-> ncalls[i],
                                        path |-> pf[i].path, kind |-> pf[i].err] }
            /\ hasErrors' = TRUE
            /\ jfailed' = [jfailed EXCEPT ![i] = TRUE]
       ELSE UNCHANGED << stderr, hasErrors, jfailed >>
    /\ pf' = [pf EXCEPT ![i] = NoFrame]
    /\ jpc' = [jpc EXCEPT ![i] = "release"]
    /\ UNCHANGED << cfgVars, diskVars, ncalls, prods, stdinData, stdoutLog,
                    effects, sem, mu, wg, exitCode, launched, jwalk, jexits >>

\* lines 473-478 and 451-456: processFile(f) or processFile(path) has returned
RetFile(i) ==
    /\ Running
    /\ jpc[i] \in { "callFile", "callWalk" }
    /\ pf[i].pc = "ret"
    /\ IF pf[i].err # "none"
       THEN /\ jpc' = [jpc EXCEPT ![i] = IF @ = "callFile" THEN "lockF" ELSE "lockW"]
            /\ jfailed' = [jfailed EXCEPT ![i] = TRUE]
            /\ pf' = pf
       ELSE /\ jpc' = [jpc EXCEPT ![i] = IF @ = "callFile" THEN "release" ELSE "walk"]
            /\ pf' = [pf EXCEPT ![i] = NoFrame]
            /\ UNCHANGED jfailed
    /\ UNCHANGED << cfgVars, diskVars, ncalls, prods, ioVars, sem, mu, wg,
                    hasErrors, exitCode, launched, jwalk, jexits >>

\* mu.Lock(), lines 444, 452, 461, 467, 474
MuLock(i) ==
    /\ Running
    /\ jpc[i] \in { "lockF", "lockW" }
    /\ mu = 0
    /\ mu' = i
    /\ jpc' = [jpc EXCEPT ![i] = IF @ = "lockF" THEN "recF" ELSE "recW"]
    /\ UNCHANGED << cfgVars, diskVars, callVars, ioVars, sem, wg, hasErrors,
                    exitCode, launched, jwalk, jfailed, jexits >>

\* log.Printf; hasErrors = true; mu.Unlock()
Record(i) ==
    /\ Running
    /\ jpc[i] \in { "recF", "recW" }
    /\ stderr' = stderr \cup { [job |-> i, call |-> ncalls[i], path |-> pf[i].path,
                                kind |-> pf[i].err] }
    /\ hasErrors' = TRUE
    /\ mu' = 0
    /\ pf' = [pf EXCEPT ![i] = NoFrame]
    /\ jpc' = [jpc EXCEPT ![i] = IF @ = "recF" THEN "release" ELSE "walk"]
    /\ UNCHANGED << cfgVars, diskVars, ncalls, prods, stdinData, stdoutLog,
                    effects, sem, wg, exitCode, launched, jwalk, jfailed, jexits >>

\* filepath.Walk, lines 442-459: the next path is visited.  A path that
\* cannot be lstat'ed is reported to the callback, a directory is replaced by
\* its sorted entries, a file is handed to processFile
WalkStep(i) ==
    /\ Running
    /\ jpc[i] = "walk"
    /\ IF jwalk[i] = << >>
       THEN /\ jpc' = [jpc EXCEPT ![i] = "release"]
            /\ UNCHANGED << jwalk, pf, ncalls, effects, jfailed >>
       ELSE LET p == Head(jwalk[i])
            IN  /\ effects' = [effects EXCEPT ![i] = @ \cup { Effect("lstat", p, 0) }]
                /\ IF ~Exists(fs, p)
                   THEN /\ pf' = [pf EXCEPT ![i] = Failure(p, "lstat")]
                        /\ jwalk' = [jwalk EXCEPT ![i] = Tail(@)]
                        /\ jpc' = [jpc EXCEPT ![i] = "lockW"]
                        /\ jfailed' = [jfailed EXCEPT ![i] = TRUE]
                        /\ UNCHANGED ncalls
                   ELSE IF IsDir(fs, p)
                   THEN /\ jwalk' = [jwalk EXCEPT ![i] =
                                        SortedSeq(Children(fs, p)) \o Tail(@)]
                        /\ UNCHANGED << jpc, pf, ncalls, jfailed >>
                   ELSE /\ pf' = [pf EXCEPT ![i] = Frame(p)]
                        /\ ncalls' = [ncalls EXCEPT ![i] = @ + 1]
                        /\ jwalk' = [jwalk EXCEPT ![i] = Tail(@)]
                        /\ jpc' = [jpc EXCEPT ![i] = "callWalk"]
                        /\ UNCHANGED jfailed
    /\ UNCHANGED << cfgVars, diskVars, prods, stdinData, stdoutLog, stderr,
                    syncVars, jexits >>

\* defer func() { <-sem }(), line 422
Release(i) ==
    /\ Running
    /\ jpc[i] = "release"
    /\ sem' = Released(sem)
    /\ jpc' = [jpc EXCEPT ![i] = "wgdone"]
    /\ UNCHANGED << cfgVars, diskVars, callVars, ioVars, mu, wg, hasErrors,
                    exitCode, launched, jwalk, jfailed, jexits >>

\* defer wg.Done(), line 420
WgDone(i) ==
    /\ Running
    /\ jpc[i] = "wgdone"
    /\ wg' = wg - 1
    /\ jexits' = [jexits EXCEPT ![i] = @ + 1]
    /\ jpc' = [jpc EXCEPT ![i] = "done"]
    /\ UNCHANGED << cfgVars, diskVars, callVars, ioVars, sem, mu, hasErrors,
                    exitCode, launched, jwalk, jfailed >>

\* wg.Wait() returns, hasErrors is read and the process exits, lines 483-487
Exit ==
    /\ Running
    /\ launched = Len(files)
    /\ wg = 0
    /\ exitCode' = [exited |-> TRUE, status |-> ExitStatus(hasErrors)]
    /\ UNCHANGED << cfgVars, diskVars, callVars, ioVars, jobVars, sem, mu, wg,
                    hasErrors, launched >>

(***************************************************************************)
(* processFile, the calling goroutine                                      *)
(***************************************************************************)
\* lines 75-170: flag conflicts, the test branch up to os.Open, the
\* standard-input checks, or os.Lstat of the input and the output path
BeginFrame(fr, ok) ==
    LET p == fr.path
    IN  IF FlagConflict(flag) # "none" THEN Ret(fr, FlagConflict(flag))
        ELSE IF TestBranch(flag)
        THEN IF p = Dash THEN [fr EXCEPT !.pc = "tRead", !.ikind = "stdin"]
             ELSE IF ok /\ Exists(fs, p) /\ ~IsDir(fs, p)
                  THEN [fr EXCEPT !.pc = "tRead", !.ikind = "file",
                                  !.iino = fs[p].ino]
                  ELSE Ret(fr, "open")
        ELSE IF StdinBranch(p, stdin)
        THEN IF ~flag.stdout
             THEN Ret(fr, "reading from stdin, can write only to stdout")
             ELSE IF flag.suffixSet
             THEN Ret(fr, "reading from stdin, suffix not needed")
             ELSE [fr EXCEPT !.pc = "spawn"]
        ELSE IF ~Exists(fs, p) THEN Ret(fr, "lstat")
        ELSE IF IsDir(fs, p) THEN Ret(fr, "is a directory")
        ELSE IF flag.stdout THEN [fr EXCEPT !.pc = "spawn"]
        ELSE LET r == ResolveOutput(p, flag.suffix, flag.decompress)
             IN  IF r.err # "none" THEN Ret(fr, r.err)
                 ELSE [fr EXCEPT !.pc = "lstatOut", !.out = r.out]

\* the system calls of those lines that name a path
BeginEffects(fr, call) ==
    LET p == fr.path
    IN  IF FlagConflict(flag) # "none" THEN { }
        ELSE IF TestBranch(flag)
        THEN IF p = Dash THEN { } ELSE { Effect("open", p, call) }
        ELSE IF StdinBranch(p, stdin) THEN { }
        ELSE { Effect("lstat", p, call) }

\* the call reaches lines 158-161 and writes the two lines, under no lock
BeginWarns(fr) ==
    /\ FlagConflict(flag) = "none"
    /\ ~TestBranch(flag)
    /\ ~StdinBranch(fr.path, stdin)
    /\ Exists(fs, fr.path) /\ ~IsDir(fs, fr.path)
    /\ ~flag.stdout
    /\ ResolveWarns(fr.path, flag.suffix, flag.decompress)

PF_Begin(i) ==
    /\ Running
    /\ pf[i].pc = "begin"
    /\ \E ok \in Outcomes : pf' = [pf EXCEPT ![i] = BeginFrame(@, ok)]
    /\ effects' = [effects EXCEPT ![i] = @ \cup BeginEffects(pf[i], ncalls[i])]
    /\ stderr' = IF BeginWarns(pf[i])
                 THEN stderr \cup NoSuffixLines(i, ncalls[i], pf[i].path)
                 ELSE stderr
    /\ UNCHANGED << cfgVars, diskVars, ncalls, prods, stdinData, stdoutLog,
                    syncVars, jobVars >>

\* lines 173-180: os.Lstat(outFilePath) and the overwrite policy
PF_LstatOut(i) ==
    LET fr == pf[i]
        step == OverwriteStep(fs, fr.out, flag.force)
    IN
    /\ Running
    /\ fr.pc = "lstatOut"
    /\ pf' = [pf EXCEPT ![i] = IF step \in { "spawn", "rmOut" }
                               THEN [fr EXCEPT !.pc = step]
                               ELSE Ret(fr, step)]
    /\ effects' = [effects EXCEPT ![i] = @ \cup { Effect("lstat", fr.out, ncalls[i]) }]
    /\ UNCHANGED << cfgVars, diskVars, ncalls, prods, stdinData, stdoutLog,
                    stderr, syncVars, jobVars >>

\* lines 181-184: os.Remove(outFilePath)
PF_RemoveOut(i) ==
    LET fr == pf[i]
    IN
    /\ Running
    /\ fr.pc = "rmOut"
    /\ \E ok \in Outcomes :
        IF ok /\ Removable(fs, fr.out)
        THEN /\ fs' = FsRemove(fs, fr.out)
             /\ pf' = [pf EXCEPT ![i] = [fr EXCEPT !.pc = "spawn"]]
             /\ effects' = [effects EXCEPT ![i] =
                               @ \cup { Effect("removeOut", fr.out, ncalls[i]) }]
        ELSE /\ pf' = [pf EXCEPT ![i] = Ret(fr, "remove")]
             /\ UNCHANGED << fs, effects >>
    /\ UNCHANGED << cfgVars, idata, ncalls, prods, stdinData, stdoutLog,
                    stderr, syncVars, jobVars >>

\* lines 190-196 and 249: io.Pipe() and `go func()`; bzip2.NewReader(pr, nil)
\* of line 218 reads nothing and cannot fail with a nil configuration
PF_Spawn(i) ==
    LET fr == pf[i]
    IN
    /\ Running
    /\ fr.pc = "spawn"
    /\ prods' = [prods EXCEPT ![i] = Append(@, Producer(ncalls[i], fr.path))]
    /\ pf' = [pf EXCEPT ![i] = [fr EXCEPT !.pc = "create", !.pk = Len(prods[i]) + 1,
                                          !.dec = "hdr"]]
    /\ UNCHANGED << cfgVars, diskVars, ncalls, ioVars, syncVars, jobVars >>

\* the read end is closed by the consumer with the result of its side
CloseReadForgotten(pr, result) == [pr EXCEPT !.cres = result]

CloseRead(pr, result) == [pr EXCEPT !.rclosed = TRUE, !.cres = result]

\* lines 225-235 and 293-304: os.Stdout, or os.Create(outFilePath), which
\* truncates a file that exists and cannot open a directory
PF_Create(i) ==
    LET fr == pf[i]
        new == Ino(i, ncalls[i])
    IN
    /\ Running
    /\ fr.pc = "create"
    /\ IF flag.stdout
       THEN /\ pf' = [pf EXCEPT ![i] = [fr EXCEPT !.pc = "copy", !.okind = "stdout"]]
            /\ UNCHANGED << fs, idata, effects, prods >>
       ELSE \E ok \in Outcomes :
            IF ~ok \/ IsDir(fs, fr.out)
            THEN /\ pf' = [pf EXCEPT ![i] = Ret(fr, "create")]
                 /\ prods' = [prods EXCEPT ![i][fr.pk] = CloseRead(@, "err")]
                 /\ UNCHANGED << fs, idata, effects >>
            ELSE IF Exists(fs, fr.out)
            THEN /\ idata' = IdataSet(idata, fs[fr.out].ino, << >>)
                 /\ pf' = [pf EXCEPT ![i] = [fr EXCEPT !.pc = "copy", !.okind = "file",
                                                       !.oino = fs[fr.out].ino]]
                 /\ effects' = [effects EXCEPT ![i] =
                                   @ \cup { Effect("truncate", fr.out, ncalls[i]) }]
                 /\ UNCHANGED << fs, prods >>
            ELSE /\ fs' = FsAdd(fs, fr.out, new)
                 /\ idata' = IdataSet(idata, new, << >>)
                 /\ pf' = [pf EXCEPT ![i] = [fr EXCEPT !.pc = "copy", !.okind = "file",
                                                       !.oino = new]]
                 /\ effects' = [effects EXCEPT ![i] =
                                   @ \cup { Effect("create", fr.out, ncalls[i]) }]
                 /\ UNCHANGED prods
    /\ UNCHANGED << cfgVars, ncalls, stdinData, stdoutLog, stderr, syncVars, jobVars >>

\* what follows a transfer that ended without error, lines 243-321
AfterCopy(fr) ==
    IF flag.decompress /\ flag.verbose /\ ~flag.stdout THEN [fr EXCEPT !.pc = "report"]
    ELSE IF ShouldRemoveInput(flag, fr.path) THEN [fr EXCEPT !.pc = "rmIn"]
    ELSE Ret(fr, "none")

\* lines 237-241 and 306-310, one turn of io.Copy(outFile, z) or
\* io.Copy(outFile, pr): what the producer offered is taken from the pipe,
\* decoded when decompressing, and written; at the end of the pipe the read
\* end is closed and the producer's error, if any, is io.Copy's error.  A
\* write to a file is made at the offset of the descriptor of this call.
PF_Copy(i) ==
    LET fr == pf[i]
        pr == prods[i][fr.pk]
        d == IF flag.decompress THEN DecodeFeed(fr.dec, pr.buf, << >>)
             ELSE [st |-> fr.dec, out |-> pr.buf, bad |-> FALSE]
        taken == [pr EXCEPT !.buf = << >>]
    IN
    /\ Running
    /\ fr.pc = "copy"
    /\ pr.buf # << >> \/ pr.wclosed
    /\ IF pr.buf # << >>
       THEN \E ok \in Outcomes :
            IF d.bad \/ (~ok /\ d.out # << >>)
            THEN /\ pf' = [pf EXCEPT ![i] = Ret(fr, IF d.bad THEN "codec" ELSE "write")]
                 /\ prods' = [prods EXCEPT ![i][fr.pk] = CloseRead(taken, "err")]
                 /\ UNCHANGED << idata, stdoutLog >>
            ELSE /\ pf' = [pf EXCEPT ![i] =
                            [fr EXCEPT !.dec = d.st,
                                       !.ooff = IF fr.okind = "file"
                                                THEN @ + Len(d.out) ELSE @]]
                 /\ prods' = [prods EXCEPT ![i][fr.pk] = taken]
                 /\ IF d.out = << >> THEN UNCHANGED << idata, stdoutLog >>
                    ELSE IF fr.okind = "stdout"
                    THEN /\ stdoutLog' = Append(stdoutLog,
                                [job |-> i, call |-> ncalls[i], data |-> d.out])
                         /\ UNCHANGED idata
                    ELSE /\ idata' = IdataSet(idata, fr.oino,
                                            WriteAt(idata[fr.oino], fr.ooff, d.out))
                         /\ UNCHANGED stdoutLog
       ELSE LET err == IF pr.werr # "none" THEN pr.werr
                       ELSE IF flag.decompress /\ ~DecodeMayEnd(fr.dec) THEN "codec"
                       ELSE "none"
            IN  /\ pf' = [pf EXCEPT ![i] = IF CopyFailed(err) THEN Ret(fr, err)
                                           ELSE AfterCopy(fr)]
                /\ prods' = [prods EXCEPT ![i][fr.pk] =
                                CloseRead(pr, IF err # "none" THEN "err" ELSE "ok")]
                /\ UNCHANGED << idata, stdoutLog >>
    /\ UNCHANGED << cfgVars, fs, ncalls, stdinData, stderr, effects, syncVars, jobVars >>

\* line 244: logMu.Lock(), on the mutex declared by this call at line 192
PF_LogLock(i) ==
    LET fr == pf[i]
    IN
    /\ Running
    /\ fr.pc = "report"
    /\ ~prods[i][fr.pk].logMu
    /\ prods' = [prods EXCEPT ![i][fr.pk].logMu = TRUE]
    /\ pf' = [pf EXCEPT ![i] = [fr EXCEPT !.pc = "print"]]
    /\ UNCHANGED << cfgVars, diskVars, ncalls, ioVars, syncVars, jobVars >>

\* lines 245-246: the "done" line of a verbose decompression; logMu.Unlock()
PF_Report(i) ==
    LET fr == pf[i]
    IN
    /\ Running
    /\ fr.pc = "print"
    /\ stderr' = stderr \cup { [job |-> i, call |-> ncalls[i], path |-> fr.path,
                                kind |-> "done"] }
    /\ prods' = [prods EXCEPT ![i][fr.pk].logMu = FALSE]
    /\ pf' = [pf EXCEPT ![i] = IF ShouldRemoveInput(flag, fr.path)
                               THEN [fr EXCEPT !.pc = "rmIn"]
                               ELSE Ret(fr, "none")]
    /\ UNCHANGED << cfgVars, diskVars, ncalls, stdinData, stdoutLog,
                    effects, syncVars, jobVars >>

\* lines 314-321: os.Remove(inFilePath)
PF_RemoveIn(i) ==
    LET fr == pf[i]
    IN
    /\ Running
    /\ fr.pc = "rmIn"
    /\ \E ok \in Outcomes :
        IF ok /\ Removable(fs, fr.path)
        THEN /\ fs' = FsRemove(fs, fr.path)
             /\ pf' = [pf EXCEPT ![i] = Ret(fr, "none")]
             /\ effects' = [effects EXCEPT ![i] =
                               @ \cup { Effect("removeIn", fr.path, ncalls[i]) }]
        ELSE /\ pf' = [pf EXCEPT ![i] = Ret(fr, "remove")]
             /\ UNCHANGED << fs, effects >>
    /\ UNCHANGED << cfgVars, idata, ncalls, prods, stdinData, stdoutLog,
                    stderr, syncVars, jobVars >>

\* what a read of at most ChunkSize tokens returns
Chunk(data, off) ==
    SubSeq(data, off + 1, IF off + ChunkSize > Len(data) THEN Len(data)
                          ELSE off + ChunkSize)

\* lines 101-115, one turn of io.Copy(io.Discard, z) in test mode: a chunk of
\* the input is read and decoded; at the end of the input the verdict is given
PF_TestRead(i) ==
    LET fr == pf[i]
        src == IF fr.ikind = "stdin" THEN stdinData
               ELSE SubSeq(idata[fr.iino], fr.ioff + 1, Len(idata[fr.iino]))
        chunk == Chunk(src, 0)
        d == DecodeFeed(fr.dec, chunk, << >>)
    IN
    /\ Running
    /\ fr.pc = "tRead"
    /\ IF src = << >>
       THEN /\ IF DecodeMayEnd(fr.dec)
               THEN /\ pf' = [pf EXCEPT ![i] = Ret(fr, "none")]
                    /\ stderr' = IF flag.verbose
                                 THEN stderr \cup { [job |-> i, call |-> ncalls[i],
                                                     path |-> fr.path, kind |-> "OK"] }
                                 ELSE stderr
               ELSE /\ pf' = [pf EXCEPT ![i] = Ret(fr, "test failed")]
                    /\ UNCHANGED stderr
            /\ UNCHANGED << stdinData, effects >>
       ELSE /\ \E ok \in Outcomes :
                /\ pf' = [pf EXCEPT ![i] =
                            IF ~ok \/ d.bad THEN Ret(fr, "test failed")
                            ELSE [fr EXCEPT !.dec = d.st, !.ioff = @ + Len(chunk)]]
                /\ IF fr.ikind = "stdin" /\ ok
                   THEN /\ stdinData' = SubSeq(stdinData, Len(chunk) + 1, Len(stdinData))
                        /\ effects' = [effects EXCEPT ![i] =
                                          @ \cup { Effect("readStdin", Dash, ncalls[i]) }]
                   ELSE UNCHANGED << stdinData, effects >>
            /\ UNCHANGED stderr
    /\ UNCHANGED << cfgVars, diskVars, ncalls, prods, stdoutLog, syncVars, jobVars >>

(***************************************************************************)
(* The producer goroutine of a processFile call                            *)
(***************************************************************************)
\* the goroutine ends: pw.CloseWithError(err) or the deferred pw.Close(),
\* after the deferred inFile.Close()
FinishSilently(pr, err) ==
    [pr EXCEPT !.pc = "done", !.wclosed = TRUE,
               !.buf = << >>,
               !.ikind = IF @ = "file" THEN "closed" ELSE @]

Finish(pr, err) ==
    [pr EXCEPT !.pc = "done", !.wclosed = TRUE,
               !.werr = IF @ = "none" THEN err ELSE @,
               !.buf = << >>,
               !.ikind = IF @ = "file" THEN "closed" ELSE @]

\* lines 198-209 and 251-268: os.Stdin or os.Open(inFilePath); bzip2.NewWriter
\* cannot fail with a level main has validated
P_Open(i, k) ==
    LET pr == prods[i][k]
    IN
    /\ Running
    /\ pr.pc = "open"
    /\ IF pr.path = Dash
       THEN /\ prods' = [prods EXCEPT ![i][k] = [pr EXCEPT !.pc = "read",
                                                           !.ikind = "stdin"]]
            /\ UNCHANGED effects
       ELSE /\ \E ok \in Outcomes :
                prods' = [prods EXCEPT ![i][k] =
                    IF ok /\ Exists(fs, pr.path) /\ ~IsDir(fs, pr.path)
                    THEN [pr EXCEPT !.pc = "read", !.ikind = "file",
                                    !.iino = fs[pr.path].ino]
                    ELSE Finish(pr, "open")]
            /\ effects' = [effects EXCEPT ![i] =
                              @ \cup { Effect("open", pr.path, pr.call) }]
    /\ UNCHANGED << cfgVars, diskVars, pf, ncalls, stdinData, stdoutLog, stderr,
                    syncVars, jobVars >>

\* the block the encoder emits for the tokens it holds
Block(pr, last) ==
    (IF pr.zhdr THEN << >> ELSE << BZh >>) \o EncodeBody(pr.zbuf)
        \o (IF last THEN << EOS >> ELSE << >>)

\* pw.Write(data): refused when the read end is closed, else offered to the
\* reader; the writer then waits in state `next`
Offer(pr, data, next) ==
    IF pr.rclosed THEN Finish(pr, "closed pipe")
    ELSE [pr EXCEPT !.buf = data, !.pc = next]

\* bzip2.WriterConfig{Level: *level}, line 264: the block of level n holds n
\* times the tokens of the block of level 1
BlockTokens(level) == level * BlockSize

\* z.Write(chunk), line 271: the chunk is buffered, and a full block is
\* encoded and written to the pipe
EncodedDropsBuffered(pr, chunk) ==
    LET held == [pr EXCEPT !.zbuf = chunk, !.zin = @ + Len(chunk)]
    IN  IF Len(held.zbuf) >= BlockTokens(flag.level)
        THEN Offer([held EXCEPT !.zbuf = << >>, !.zhdr = TRUE,
                                !.zout = @ + Len(Block(held, FALSE))],
                   Block(held, FALSE), "wait")
        ELSE held

Encoded(pr, chunk) ==
    LET held == [pr EXCEPT !.zbuf = @ \o chunk, !.zin = @ + Len(chunk)]
    IN  IF Len(held.zbuf) >= BlockTokens(flag.level)
        THEN Offer([held EXCEPT !.zbuf = << >>, !.zhdr = TRUE,
                                !.zout = @ + Len(Block(held, FALSE))],
                   Block(held, FALSE), "wait")
        ELSE held

\* lines 211-215 and 271-275, one turn of io.Copy(pw, inFile) or
\* io.Copy(z, inFile): a chunk is read and written on
P_Read(i, k) ==
    LET pr == prods[i][k]
        src == IF pr.ikind = "stdin" THEN stdinData
               ELSE SubSeq(idata[pr.iino], pr.ioff + 1, Len(idata[pr.iino]))
        chunk == Chunk(src, 0)
        read == [pr EXCEPT !.ioff = @ + Len(chunk)]
    IN
    /\ Running
    /\ pr.pc = "read"
    /\ IF src = << >>
       THEN /\ prods' = [prods EXCEPT ![i][k] =
                IF flag.decompress THEN Finish(pr, "none")
                ELSE [pr EXCEPT !.pc = IF flag.verbose THEN "report" ELSE "zclose"]]
            /\ UNCHANGED << stdinData, effects >>
       ELSE \E ok \in Outcomes :
            /\ prods' = [prods EXCEPT ![i][k] =
                IF ~ok THEN Finish(pr, "read")
                ELSE IF flag.decompress THEN Offer(read, chunk, "wait")
                ELSE Encoded(read, chunk)]
            /\ IF pr.ikind = "stdin" /\ ok
               THEN /\ stdinData' = SubSeq(stdinData, Len(chunk) + 1, Len(stdinData))
                    /\ effects' = [effects EXCEPT ![i] =
                                      @ \cup { Effect("readStdin", Dash, pr.call) }]
               ELSE UNCHANGED << stdinData, effects >>
    /\ UNCHANGED << cfgVars, diskVars, pf, ncalls, stdoutLog, stderr, syncVars,
                    jobVars >>

\* pw.Write returns: the reader has taken the data, or has closed its end
P_Wait(i, k) ==
    LET pr == prods[i][k]
    IN
    /\ Running
    /\ pr.pc = "wait"
    /\ pr.buf = << >> \/ pr.rclosed
    /\ prods' = [prods EXCEPT ![i][k] =
                    IF pr.buf = << >> THEN [pr EXCEPT !.pc = "read"]
                    ELSE Finish(pr, "closed pipe")]
    /\ UNCHANGED << cfgVars, diskVars, pf, ncalls, ioVars, syncVars, jobVars >>

\* lines 277-287: the verbose summary of a compression is formatted from the
\* counters of the encoder as they are when io.Copy has returned; logMu.Lock()
P_LogLock(i, k) ==
    LET pr == prods[i][k]
    IN
    /\ Running
    /\ pr.pc = "report"
    /\ ~pr.logMu
    /\ prods' = [prods EXCEPT ![i][k] = [pr EXCEPT !.pc = "print", !.logMu = TRUE]]
    /\ UNCHANGED << cfgVars, diskVars, pf, ncalls, ioVars, syncVars, jobVars >>

\* lines 288-289: the summary is written; logMu.Unlock()
P_Report(i, k) ==
    LET pr == prods[i][k]
    IN
    /\ Running
    /\ pr.pc = "print"
    /\ stderr' = stderr \cup { [job |-> i, call |-> pr.call, path |-> pr.path,
                                kind |-> "summary", in |-> pr.zin, out |-> pr.zout] }
    /\ prods' = [prods EXCEPT ![i][k] = [pr EXCEPT !.pc = "zclose", !.logMu = FALSE]]
    /\ UNCHANGED << cfgVars, diskVars, pf, ncalls, stdinData, stdoutLog, effects,
                    syncVars, jobVars >>

\* the deferred z.Close(), line 269: the last block and the trailer are
\* written to the pipe; its error is dropped
P_ZClose(i, k) ==
    LET pr == prods[i][k]
        last == Block(pr, TRUE)
    IN
    /\ Running
    /\ pr.pc = "zclose"
    /\ prods' = [prods EXCEPT ![i][k] =
                    IF pr.rclosed THEN Finish(pr, "none")
                    ELSE [pr EXCEPT !.buf = last, !.pc = "zwait", !.zbuf = << >>,
                                    !.zhdr = TRUE, !.zout = @ + Len(last)]]
    /\ UNCHANGED << cfgVars, diskVars, pf, ncalls, ioVars, syncVars, jobVars >>

\* z.Close() returns; the deferred inFile.Close() and pw.Close() run
P_ZWait(i, k) ==
    LET pr == prods[i][k]
    IN
    /\ Running
    /\ pr.pc = "zwait"
    /\ pr.buf = << >> \/ pr.rclosed
    /\ prods' = [prods EXCEPT ![i][k] = Finish(pr, "none")]
    /\ UNCHANGED << cfgVars, diskVars, pf, ncalls, ioVars, syncVars, jobVars >>

(***************************************************************************)
(* The specifications                                                      *)
(***************************************************************************)
Next ==
    \/ Launch
    \/ Exit
    \/ \E i \in Jobs : Acquire(i)
    \/ \E i \in Jobs : Dispatch(i)
    \/ \E i \in Jobs : RetStdin(i)
    \/ \E i \in Jobs : RetFile(i)
    \/ \E i \in Jobs : MuLock(i)
    \/ \E i \in Jobs : Record(i)
    \/ \E i \in Jobs : WalkStep(i)
    \/ \E i \in Jobs : Release(i)
    \/ \E i \in Jobs : WgDone(i)
    \/ \E i \in Jobs : PF_Begin(i)
    \/ \E i \in Jobs : PF_LstatOut(i)
    \/ \E i \in Jobs : PF_RemoveOut(i)
    \/ \E i \in Jobs : PF_Spawn(i)
    \/ \E i \in Jobs : PF_Create(i)
    \/ \E i \in Jobs : PF_Copy(i)
    \/ \E i \in Jobs : PF_LogLock(i)
    \/ \E i \in Jobs : PF_Report(i)
    \/ \E i \in Jobs : PF_RemoveIn(i)
    \/ \E i \in Jobs : PF_TestRead(i)
    \/ \E i \in Jobs : \E k \in 1..Len(prods[i]) : P_Open(i, k)
    \/ \E i \in Jobs : \E k \in 1..Len(prods[i]) : P_Read(i, k)
    \/ \E i \in Jobs : \E k \in 1..Len(prods[i]) : P_Wait(i, k)
    \/ \E i \in Jobs : \E k \in 1..Len(prods[i]) : P_LogLock(i, k)
    \/ \E i \in Jobs : \E k \in 1..Len(prods[i]) : P_Report(i, k)
    \/ \E i \in Jobs : \E k \in 1..Len(prods[i]) : P_ZClose(i, k)
    \/ \E i \in Jobs : \E k \in 1..Len(prods[i]) : P_ZWait(i, k)

\* the flag sets: -r only matters to a directory argument
FlagSets(recursives, suffixes, coreSet) ==
    { Flags(t, d, c, f, k, v, r, sx[1], sx[2], n) :
        t \in BOOLEAN, d \in BOOLEAN, c \in BOOLEAN, f \in BOOLEAN,
        k \in BOOLEAN, v \in BOOLEAN, r \in recursives, sx \in suffixes,
        n \in coreSet }

\* the disks that differ in a and a.bz2, and those that differ in "-"
FileDisks ==
    { DiskOf(ka, kz, "absent") : ka \in { "absent", "plain", "good" },
                                 kz \in { "absent", "good", "corrupt", "dir" } }

DashDisks == { DiskOf("plain", "absent", kd) : kd \in { "absent", "plain" } }

\* one job at a time, under every combination of flags: a file argument on
\* every disk, standard input (implicit or "-"), a directory argument
InitJob ==
    \/ InitWith({ << pA >>, << pAz >> }, FlagSets({ FALSE }, SuffixChoices, { 1 }),
                FileDisks, { TRUE }, { GoodData }, { TRUE })
    \/ InitWith({ << >>, << Dash >> }, FlagSets({ FALSE }, SuffixChoices, { 1 }),
                DashDisks, BOOLEAN, { GoodData, PlainData }, { TRUE })
    \/ InitWith({ << pD >> }, FlagSets(BOOLEAN, SuffixChoices, { 1 }),
                { DiskOf("plain", "absent", "absent") }, { TRUE }, { GoodData }, { TRUE })

SpecJob == InitJob /\ [][Next]_vars

\* the flag sets of the dispatcher runs: the mode (-t makes -d irrelevant),
\* -c and the budget vary, -f and -v vary together, -k is unset
MainFlagSets(recursives) ==
    { Flags(m[1], m[2], c, fv, FALSE, fv, r, DefaultSuffix, FALSE, n) :
        m \in { << FALSE, FALSE >>, << FALSE, TRUE >>, << TRUE, FALSE >> },
        c \in BOOLEAN, fv \in BOOLEAN, r \in recursives, n \in 1..MaxCores }

MainDisks == { DiskOf("plain", "absent", "absent"), DiskOf("plain", "good", "absent") }

\* up to MaxArgs arguments run together: files, "-", a path that may not
\* exist, and a directory with and without -r (-r is read for nothing else),
\* alone or next to another argument, which may be a file of that directory
Init ==
    \/ InitWith(SeqsUpTo({ pA, pAz, Dash }, MaxArgs), MainFlagSets({ FALSE }),
                MainDisks, { TRUE }, { GoodData }, { FALSE })
    \/ InitWith({ q \in SeqsUpTo({ pA, pAz, Dash, pD, pDa }, MaxArgs) :
                    Cardinality({ n \in 1..Len(q) : q[n] = pD }) \in 1..MaxDirArgs },
                MainFlagSets(BOOLEAN), MainDisks, { TRUE }, { GoodData }, { FALSE })

Spec == Init /\ [][Next]_vars

FairSpec == Spec /\ WF_vars(Next)

(***************************************************************************)
(* The path resolution alone, on every short path and suffix               *)
(***************************************************************************)
PathChars == { "a", ".", "/" }
SuffixChars == { "a", "." }

\* the paths processFile resolves: os.Lstat has found them and they are no
\* directory, so they are not empty and do not end in a slash
ResolveInputs ==
    { r \in [path : SeqsUpTo(PathChars, MaxPathLen),
             suffix : SeqsUpTo(SuffixChars, MaxSuffixLen),
             decompress : BOOLEAN] :
        r.path # << >> /\ r.path[Len(r.path)] # "/" }

InitPath ==
    /\ rin \in ResolveInputs
    /\ rout = [state |-> "pending", err |-> "none", out |-> << >>]
    /\ round = NoRound
    /\ flag = Flags(FALSE, rin.decompress, FALSE, FALSE, FALSE, FALSE, FALSE,
                    rin.suffix, TRUE, 1)
    /\ files = << >>
    /\ stdin = FALSE
    /\ disk0 = DiskOf("absent", "absent", "absent")
    /\ faulty = FALSE
    /\ fs = << >>
    /\ idata = << >>
    /\ stdinData = << >>
    /\ launched = 0
    /\ jpc = << >>
    /\ jwalk = << >>
    /\ jfailed = << >>
    /\ jexits = << >>
    /\ pf = << >>
    /\ ncalls = << >>
    /\ prods = << >>
    /\ effects = << >>
    /\ sem = 0
    /\ mu = 0
    /\ wg = 0
    /\ hasErrors = FALSE
    /\ exitCode = [exited |-> FALSE, status |-> 0]
    /\ stdoutLog = << >>
    /\ stderr = { }

\* lines 140-170 are run on the input
ResolveStep ==
    /\ rout.state = "pending"
    /\ rout' = [state |-> "done"] @@ ResolveOutput(rin.path, rin.suffix, rin.decompress)
    /\ stderr' = IF ResolveWarns(rin.path, rin.suffix, rin.decompress)
                 THEN stderr \cup NoSuffixLines(0, 0, rin.path)
                 ELSE stderr
    /\ UNCHANGED << flag, files, stdin, disk0, faulty, rin, round, diskVars,
                    syncVars, jobVars, callVars, stdinData, stdoutLog, effects >>

NextPath == ResolveStep

SpecPath == InitPath /\ [][NextPath]_vars

(***************************************************************************)
(* A file compressed by one run and decompressed by the next:              *)
(* `bzip2 -L a` followed by `bzip2 -d a.bz2`, with the same -k, -f and -v  *)
(***************************************************************************)
RoundInputs == SeqsUpTo(Bytes, MaxDataLen)

RoundDisk == DiskOf("plain", "absent", "absent")

InitRound ==
    \E x \in RoundInputs, k \in BOOLEAN, f \in BOOLEAN, v \in BOOLEAN,
       l \in 1..MaxLevel :
        /\ round = [pass |-> 1, data |-> x, first |-> 0]
        /\ flag = [Flags(FALSE, FALSE, FALSE, f, k, v, FALSE, DefaultSuffix, FALSE, 1)
                      EXCEPT !.level = l]
        /\ files = << pA >>
        /\ stdin = FALSE
        /\ faulty = FALSE
        /\ disk0 = RoundDisk
        /\ fs = FsOf(RoundDisk)
        /\ idata = IdataSet(IdataOf(RoundDisk), InitIno(pA), x)
        /\ stdinData = << >>
        /\ launched = 0
        /\ jpc = << "idle" >>
        /\ jwalk = << << >> >>
        /\ jfailed = << FALSE >>
        /\ jexits = << 0 >>
        /\ pf = << NoFrame >>
        /\ ncalls = << 0 >>
        /\ prods = << << >> >>
        /\ effects = << { } >>
        /\ sem = 0
        /\ mu = 0
        /\ wg = 0
        /\ hasErrors = FALSE
        /\ exitCode = [exited |-> FALSE, status |-> 0]
        /\ stdoutLog = << >>
        /\ stderr = { }
        /\ rin = [path |-> << >>, suffix |-> << >>, decompress |-> FALSE]
        /\ rout = [state |-> "unused", err |-> "none", out |-> << >>]

\* the first run has exited; main starts again, lines 325-413, with -d and
\* the file the first run wrote, on the disk the first run left
Rerun ==
    /\ exitCode.exited
    /\ round.pass = 1
    /\ round' = [round EXCEPT !.pass = 2, !.first = exitCode.status]
    /\ flag' = [flag EXCEPT !.decompress = TRUE]
    /\ files' = << pAz >>
    /\ launched' = 0
    /\ jpc' = << "idle" >>
    /\ jwalk' = << << >> >>
    /\ jfailed' = << FALSE >>
    /\ jexits' = << 0 >>
    /\ pf' = << NoFrame >>
    /\ sem' = 0
    /\ mu' = 0
    /\ wg' = 0
    /\ hasErrors' = FALSE
    /\ exitCode' = [exited |-> FALSE, status |-> 0]
    /\ UNCHANGED << stdin, disk0, faulty, rin, rout, diskVars, ncalls, prods,
                    ioVars >>

\* the steps of a run on one file argument, and the start of the second run
NextRound ==
    \/ Launch
    \/ Exit
    \/ Rerun
    \/ \E i \in Jobs : Acquire(i)
    \/ \E i \in Jobs : Dispatch(i)
    \/ \E i \in Jobs : RetFile(i)
    \/ \E i \in Jobs : MuLock(i)
    \/ \E i \in Jobs : Record(i)
    \/ \E i \in Jobs : Release(i)
    \/ \E i \in Jobs : WgDone(i)
    \/ \E i \in Jobs : PF_Begin(i)
    \/ \E i \in Jobs : PF_LstatOut(i)
    \/ \E i \in Jobs : PF_RemoveOut(i)
    \/ \E i \in Jobs : PF_Spawn(i)
    \/ \E i \in Jobs : PF_Create(i)
    \/ \E i \in Jobs : PF_Copy(i)
    \/ \E i \in Jobs : PF_LogLock(i)
    \/ \E i \in Jobs : PF_Report(i)
    \/ \E i \in Jobs : PF_RemoveIn(i)
    \/ \E i \in Jobs : \E k \in 1..Len(prods[i]) : P_Open(i, k)
    \/ \E i \in Jobs : \E k \in 1..Len(prods[i]) : P_Read(i, k)
    \/ \E i \in Jobs : \E k \in 1..Len(prods[i]) : P_Wait(i, k)
    \/ \E i \in Jobs : \E k \in 1..Len(prods[i]) : P_LogLock(i, k)
    \/ \E i \in Jobs : \E k \in 1..Len(prods[i]) : P_Report(i, k)
    \/ \E i \in Jobs : \E k \in 1..Len(prods[i]) : P_ZClose(i, k)
    \/ \E i \in Jobs : \E k \in 1..Len(prods[i]) : P_ZWait(i, k)

SpecRound == InitRound /\ [][NextRound]_vars

(***************************************************************************)
(* Vocabulary of the properties                                            *)
(***************************************************************************)
CompressToFile == ~flag.test /\ ~flag.decompress /\ ~flag.stdout
DecompressToFile == ~flag.test /\ flag.decompress /\ ~flag.stdout
Fext == Dot \o flag.suffix

\* the job goroutines that have passed `sem <- struct{}{}` and not yet `<-sem`
Holders ==
    { i \in Jobs : jpc[i] \in { "dispatch", "callStdin", "callFile", "callWalk",
                                "walk", "lockF", "lockW", "recF", "recW",
                                "release" } }

\* the jobs inside the transfer of processFile
Transferring == { i \in Jobs : pf[i].pc \in { "create", "copy", "tRead" } }

OnDisk0(p) == p \in DiskPaths /\ disk0[p] # "absent"

\* path p is what it was when the run started
Untouched(p) ==
    /\ OnDisk0(p)
    /\ p \in DOMAIN fs
    /\ fs[p] = FsOf(disk0)[p]
    /\ idata[fs[p].ino] = Content(disk0[p])

DiskUnchanged == fs = FsOf(disk0) /\ idata = IdataOf(disk0)

CallEffects(i, k) == { e \in effects[i] : e.call = k }

Mutating == { "create", "truncate", "removeIn", "removeOut" }

\* what the codec makes of a whole input in the direction of the run
Transform(data) ==
    IF flag.decompress THEN DecodeFeed("hdr", data, << >>).out ELSE Encode(data)

\* processFile has returned nil to job i
Succeeded(i) == pf[i].pc = "ret" /\ pf[i].err = "none"

(***************************************************************************)
(* C1: the gate                                                            *)
(***************************************************************************)
\* C1: in every reachable state the number of jobs that hold a slot of the
\* gate (and so the number of jobs that may be transferring data) is at most
\* the budget *cores, and the channel holds exactly one token per holder.
C1_GateBound ==
    /\ Cardinality(Holders) <= flag.cores
    /\ sem = Cardinality(Holders)
    /\ Transferring \subseteq Holders

\* the gate is full, one job transfers and another waits to be admitted
C1_Witness ==
    /\ Cardinality(Holders) = flag.cores
    /\ Transferring # { }
    /\ \E i \in Jobs : jpc[i] = "acquire"

(***************************************************************************)
(* C2: the exit status                                                     *)
(***************************************************************************)
\* C2: once the process has exited every job goroutine has finished, and the
\* status is 1 when some job met a failure and 0 when none did.
C2_ExitStatus ==
    exitCode.exited =>
        /\ \A i \in Jobs : jpc[i] = "done"
        /\ exitCode.status = (IF \E i \in Jobs : jfailed[i] THEN 1 ELSE 0)

\* two jobs, one failed and one did not, and the process has exited with 1
C2_Witness ==
    /\ exitCode.exited
    /\ exitCode.status = 1
    /\ \E i, j \in Jobs : jfailed[i] /\ ~jfailed[j]

(***************************************************************************)
(* C3: the removal of the original                                         *)
(***************************************************************************)
\* C3: a job removes its input only in compress or decompress mode, to a named
\* file, without -k, for an input that is not "-", and only once its own
\* transfer has ended without error on both sides; a call whose transfer
\* failed on either side has not removed its input; a call that returns nil
\* where the removal is due has removed the input (a failed removal is the
\* call's error).
C3_RemovalAfterTransfer ==
    \A i \in Jobs :
        /\ \A e \in effects[i] :
            e.op = "removeIn" =>
                /\ ~flag.test /\ ~flag.stdout /\ ~flag.keep /\ e.path # Dash
                /\ \E k \in 1..Len(prods[i]) :
                    /\ prods[i][k].call = e.call
                    /\ prods[i][k].path = e.path
                    /\ prods[i][k].cres = "ok"
                    /\ prods[i][k].werr = "none"
                    /\ prods[i][k].pc = "done"
        /\ \A k \in 1..Len(prods[i]) :
            (prods[i][k].cres = "err" \/ prods[i][k].werr # "none") =>
                Effect("removeIn", prods[i][k].path, prods[i][k].call)
                    \notin effects[i]
        /\ (Succeeded(i) /\ pf[i].pk > 0 /\ ~flag.stdout /\ ~flag.keep
                /\ pf[i].path # Dash) =>
                /\ Effect("removeIn", pf[i].path, ncalls[i]) \in effects[i]
                /\ pf[i].path \notin DOMAIN fs

\* a job has removed its input
C3_Witness ==
    \E i \in Jobs : \E e \in effects[i] : e.op = "removeIn" /\ Succeeded(i)

(***************************************************************************)
(* C4: the overwrite policy                                                *)
(***************************************************************************)
\* the output path of the call of job i was on the disk when the run started,
\* and the call has lstat'ed it
OutputExisted(i) ==
    /\ ~flag.test /\ ~flag.stdout
    /\ pf[i].pc \notin { "none", "begin", "lstatOut" }
    /\ pf[i].out # << >>
    /\ OnDisk0(pf[i].out)

\* the call of job i has put a new file with the transformed input in place
OutputReplaced(i) ==
    /\ pf[i].out \in DOMAIN fs
    /\ fs[pf[i].out] = [kind |-> "file", ino |-> Ino(i, ncalls[i])]
    /\ idata[Ino(i, ncalls[i])] = Transform(Content(disk0[pf[i].path]))

\* without -f, or when the output path is a directory: the call has failed
\* and nothing on the disk has changed
C4_Refused(i) ==
    /\ pf[i].pc = "ret"
    /\ pf[i].err = (IF flag.force THEN "outFile is a directory" ELSE "outFile exists")
    /\ DiskUnchanged

\* the errors of a system call that failed for a reason outside the program
IOErrors == { "remove", "create", "write", "read", "open", "closed pipe" }

\* C4 as the claim states it: with -f the existing output is removed and
\* replaced by the new output and, unless -k is set, the input is removed
\* (a call that ends on a failed system call is left aside).
C4_ForceAlwaysReplaces ==
    \A i \in Jobs :
        OutputExisted(i) =>
            IF ~flag.force \/ disk0[pf[i].out] = "dir" THEN C4_Refused(i)
            ELSE (pf[i].pc = "ret" /\ pf[i].err \notin IOErrors) =>
                    /\ OutputReplaced(i)
                    /\ ~flag.keep => pf[i].path \notin DOMAIN fs

\* C4, amended: when the output path exists and -f is unset, or the path is a
\* directory, the job fails and neither the output nor the input is modified;
\* with -f an existing output file is removed before the transfer (if that
\* removal fails the job fails and nothing is modified), and when the job then
\* succeeds the output is a new file holding the new output and the input (a
\* path other than "-") is removed unless -k is set, and untouched with -k.
C4_OverwritePolicy ==
    \A i \in Jobs :
        OutputExisted(i) =>
            IF ~flag.force \/ disk0[pf[i].out] = "dir" THEN C4_Refused(i)
            ELSE IF Effect("removeOut", pf[i].out, ncalls[i]) \notin effects[i]
            THEN /\ pf[i].pc = "rmOut" \/ (pf[i].pc = "ret" /\ pf[i].err = "remove")
                 /\ DiskUnchanged
            ELSE /\ pf[i].out \in DOMAIN fs => fs[pf[i].out].ino = Ino(i, ncalls[i])
                 /\ Succeeded(i) =>
                     /\ OutputReplaced(i)
                     /\ IF flag.keep THEN Untouched(pf[i].path)
                        ELSE pf[i].path \notin DOMAIN fs

\* -f, the output existed, and the job has replaced it
C4_Witness ==
    \E i \in Jobs :
        /\ OutputExisted(i) /\ flag.force /\ Succeeded(i)
        /\ Effect("removeOut", pf[i].out, ncalls[i]) \in effects[i]
        /\ OutputReplaced(i)

(***************************************************************************)
(* C5: decompressing an input without the suffix                           *)
(***************************************************************************)
\* a decompress call to a named file on an input that lacks the suffix
NoSuffixDecompress(i) ==
    /\ DecompressToFile
    /\ flag.suffix # << >>
    /\ pf[i].pc \notin { "none", "begin" }
    /\ pf[i].pk > 0 \/ pf[i].out # << >>
    /\ ~HasSuffix(pf[i].path, Fext)

\* C5 as the claim states it: the output goes to <input>.out and a call that
\* succeeds leaves <input> untouched.
C5_InputAlwaysUntouched ==
    \A i \in Jobs :
        NoSuffixDecompress(i) =>
            /\ pf[i].out = pf[i].path \o DotOut
            /\ Succeeded(i) => Untouched(pf[i].path)

\* C5, amended: the output goes to <input>.out, nothing else is created or
\* removed, the input is untouched while the call runs, and a call that
\* succeeds leaves <input> untouched when -k is set or the path is "-", and
\* has removed it otherwise.  For the path "-" the data are read from the
\* standard input, never from the file "-".
C5_DotOut ==
    \A i \in Jobs :
        NoSuffixDecompress(i) =>
            /\ pf[i].out = pf[i].path \o DotOut
            /\ (pf[i].path = Dash /\ pf[i].pk > 0) =>
                /\ prods[i][pf[i].pk].ikind \in { "none", "stdin" }
                /\ Effect("open", Dash, ncalls[i]) \notin effects[i]
            /\ \A e \in CallEffects(i, ncalls[i]) :
                e.op \in { "create", "truncate", "removeOut" } => e.path = pf[i].out
            /\ pf[i].pc # "ret" => Untouched(pf[i].path)
            /\ Succeeded(i) =>
                /\ pf[i].out \in DOMAIN fs
                /\ fs[pf[i].out].kind = "file"
                /\ pf[i].path # Dash =>
                    idata[fs[pf[i].out].ino] = Transform(Content(disk0[pf[i].path]))
                /\ IF flag.keep \/ pf[i].path = Dash THEN Untouched(pf[i].path)
                   ELSE /\ pf[i].path \notin DOMAIN fs
                        /\ Effect("removeIn", pf[i].path, ncalls[i]) \in effects[i]

\* with -k, an input without the suffix has been decompressed to <input>.out
C5_Witness ==
    \E i \in Jobs :
        /\ NoSuffixDecompress(i) /\ Succeeded(i) /\ flag.keep
        /\ pf[i].path # Dash
        /\ pf[i].out \in DOMAIN fs

(***************************************************************************)
(* C6: stripping the suffix                                                *)
(***************************************************************************)
\* C6 as the claim states it: for a non-empty suffix, a file name that ends in
\* "."+suffix and is longer than it gives the input path without its trailing
\* "."+suffix, and a file name that is exactly "."+suffix gives the
\* cannot-strip error.
C6_SuffixStripped ==
    (rout.state = "done" /\ rin.decompress /\ rin.suffix # << >>) =>
        LET fext == Dot \o rin.suffix
            name == PathSplit(rin.path)[2]
        IN  /\ (HasSuffix(name, fext) /\ Len(name) > Len(fext)) =>
                /\ rout.err = "none"
                /\ rout.out = SubSeq(rin.path, 1, Len(rin.path) - Len(fext))
            /\ name = fext => rout.err = "cantstrip"

(***************************************************************************)
(* C7: compressing an input that has the suffix                            *)
(***************************************************************************)
\* C7: a compress call to a named file on an input path that ends in
\* "."+suffix resolves no output path, changes nothing on the disk and
\* returns an error, and the job that made it ends as failed.
C7_SuffixedInputRefused ==
    \A i \in Jobs :
        /\ (CompressToFile /\ pf[i].pc # "none" /\ HasSuffix(pf[i].path, Fext)) =>
            /\ pf[i].pc \in { "begin", "ret" }
            /\ pf[i].pc = "ret" => pf[i].err # "none"
            /\ pf[i].out = << >>
            /\ \A e \in effects[i] : e.op \notin Mutating
            /\ DiskUnchanged
        /\ (CompressToFile /\ HasSuffix(files[i], Fext)
                /\ jpc[i] \in { "release", "wgdone", "done" }) =>
            /\ jfailed[i]
            /\ DiskUnchanged

\* a.bz2 is a file, was given to be compressed, and the job has been refused
C7_Witness ==
    \E i \in Jobs :
        /\ CompressToFile /\ HasSuffix(files[i], Fext)
        /\ disk0[files[i]] \in { "good", "corrupt" }
        /\ jpc[i] = "done"
        /\ \E l \in stderr : l.job = i /\ l.kind = "hassuffix"

(***************************************************************************)
(* C8: test mode                                                           *)
(***************************************************************************)
\* C8: in test mode no output path is resolved, no pipe or producer is
\* started, no file is created, truncated or removed, nothing is written to
\* standard output, and the only line processFile writes is the OK line of a
\* verbose run.
C8_TestModeReadOnly ==
    flag.test =>
        /\ DiskUnchanged
        /\ stdoutLog = << >>
        /\ \A l \in stderr : l.kind \notin { "done", "summary" }
                             /\ (l.kind = "OK" => flag.verbose)
        /\ \A i \in Jobs :
            /\ pf[i].out = << >>
            /\ pf[i].pc \in { "none", "begin", "tRead", "ret" }
            /\ prods[i] = << >>
            /\ \A e \in effects[i] :
                /\ e.op \in { "stat", "lstat", "open", "readStdin" }
                /\ e.op = "lstat" => e.call = 0

\* a verbose test of a good file has printed its OK line and returned nil
C8_Witness ==
    /\ flag.test
    /\ \E i \in Jobs : Succeeded(i) /\ pf[i].path = pAz
                       /\ \E l \in stderr : l.job = i /\ l.kind = "OK"

(***************************************************************************)
(* C9: every job terminates                                                *)
(***************************************************************************)
AllJobsDone == \A i \in Jobs : jpc[i] = "done" /\ jexits[i] = 1

\* C9: under fair scheduling every argument's job is eventually admitted and
\* ends, exactly once, whatever its siblings do; all slots are then free.
C9_EveryJobEnds ==
    /\ <>[](AllJobsDone /\ sem = 0)
    /\ [](\A i \in Jobs : jexits[i] <= 1)

\* two jobs have ended, one as failed and one not
C9_Witness ==
    /\ AllJobsDone
    /\ sem = 0
    /\ \E i, j \in Jobs : jfailed[i] /\ ~jfailed[j]

(***************************************************************************)
(* C10: the "-" argument                                                   *)
(***************************************************************************)
\* C10 as the claim states it: the job of a "-" argument makes no existence
\* or type check of the path "-" and does not open it.
C10_DashNeverChecked ==
    \A i \in Jobs :
        files[i] = Dash =>
            \A e \in effects[i] :
                ~(e.path = Dash /\ e.op \in { "stat", "lstat", "open" })

(***************************************************************************)
(* C11: compressing and then decompressing                                 *)
(***************************************************************************)
\* the second run can succeed: its output path is free, or -f frees it
SecondRunAdmitted == ~flag.keep \/ flag.force

\* C11: for every input X and level, the compressing run ends with status 0
\* and a.bz2 holding the encoding of X, every byte once and in order; the
\* decompressing run that follows ends with status 0 whenever its output path
\* is free or forced, and then the file a holds exactly X.
C11_RoundTrip ==
    /\ (round.pass = 1 /\ exitCode.exited) =>
        /\ exitCode.status = 0
        /\ pAz \in DOMAIN fs
        /\ idata[fs[pAz].ino] = Encode(round.data)
    /\ (round.pass = 2 /\ exitCode.exited) =>
        /\ round.first = 0
        /\ exitCode.status = (IF SecondRunAdmitted THEN 0 ELSE 1)
        /\ SecondRunAdmitted =>
            /\ pA \in DOMAIN fs
            /\ fs[pA].ino # InitIno(pA)
            /\ idata[fs[pA].ino] = round.data

\* an input of more than one block went through both runs
C11_Witness ==
    /\ round.pass = 2
    /\ exitCode.exited
    /\ exitCode.status = 0
    /\ Len(round.data) > BlockTokens(flag.level)
    /\ fs[pA].ino # InitIno(pA)
    /\ idata[fs[pA].ino] = round.data

(***************************************************************************)
(* C12: the failure flag                                                   *)
(***************************************************************************)
\* the step in which job i executes `hasErrors = true`: under mu (lines
\* 446, 454, 463, 469, 476), after a failed os.Stat (line 436), or after a
\* failed processFile("-") (line 428)
WritesFlag(i) ==
    \/ jpc[i] \in { "recF", "recW" } /\ jpc'[i] # jpc[i]
    \/ /\ jpc[i] \in { "dispatch", "callStdin" }
       /\ jpc'[i] = "release"
       /\ jfailed'[i] /\ ~jfailed[i]

\* C12 as the claim states it: every job that writes hasErrors holds mu when
\* it does, the flag is never cleared, and it is read (by the exit) only
\* when every job goroutine has finished.
C12_FlagUnderMutex ==
    [][ /\ \A i \in Jobs : WritesFlag(i) => mu = i
        /\ hasErrors => hasErrors'
        /\ (exitCode' # exitCode) => \A i \in Jobs : jpc[i] = "done" ]_vars

(***************************************************************************)
(* C13: the lock of the diagnostic stream                                  *)
(***************************************************************************)
\* the tasks that hold a lock in order to write a line to os.Stderr: a job
\* goroutine under mu, a processFile call or its producer under logMu
LogWriters ==
    { [task |-> "job", job |-> i, k |-> 0] :
        i \in { j \in Jobs : jpc[j] \in { "recF", "recW" } } }
    \cup { [task |-> "consumer", job |-> i, k |-> 0] :
            i \in { j \in Jobs : pf[j].pc = "print" } }
    \cup UNION { { [task |-> "producer", job |-> i, k |-> n] :
                      n \in { m \in 1..Len(prods[i]) : prods[i][m].pc = "print" } } :
                    i \in Jobs }

\* the processFile calls whose next step writes the two lines of lines
\* 158-161 to os.Stderr, holding no lock
UnlockedWriters ==
    { [task |-> "warner", job |-> i, k |-> 0] :
        i \in { j \in Jobs : pf[j].pc = "begin" /\ BeginWarns(pf[j]) } }

\* C13 as the claim states it: at most one task at a time is writing to the
\* diagnostic stream, that is, is between the acquisition of its lock and the
\* end of its write, or is writing without a lock.
C13_OneWriter == Cardinality(LogWriters \cup UnlockedWriters) <= 1

(***************************************************************************)
(* C14: one writer per output file                                         *)
(***************************************************************************)
\* job i holds the file it created at its output path open for writing
\* (between os.Create and the deferred outFile.Close())
WritesOutput(i) == pf[i].okind = "file" /\ pf[i].out # << >>

\* C14 as the claim states it: no two jobs hold the same output path open for
\* writing at the same time.
C14_OneWriterPerFile ==
    \A i, j \in Jobs :
        (i # j /\ WritesOutput(i) /\ WritesOutput(j)) => pf[i].out # pf[j].out

(***************************************************************************)
(* C15: the producer and the gate slot                                     *)
(***************************************************************************)
\* the producer goroutines of job i that have not ended
LiveProducers(i) == { k \in 1..Len(prods[i]) : prods[i][k].pc # "done" }

\* the jobs with a live task: the job goroutine inside its slot, or a producer
LiveJobs == Holders \cup { i \in Jobs : LiveProducers(i) # { } }

\* C15 as the claim states it: while the process runs, a job that is outside
\* its gate slot, or whose processFile call has returned, has no live
\* producer and no input file open in one, and the jobs with a live task are
\* at most *cores.
C15_ProducerWithinSlot ==
    Running =>
        /\ \A i \in Jobs :
            (i \notin Holders \/ pf[i].pc \in { "ret", "none" }) =>
                /\ LiveProducers(i) = { }
                /\ \A k \in 1..Len(prods[i]) : prods[i][k].ikind # "file"
        /\ Cardinality(LiveJobs) <= flag.cores

(***************************************************************************)
(* C16: a failure of either side is the error of the call                  *)
(***************************************************************************)
\* the producer has ended without having read its whole input: it could not
\* open it, or it stopped before the end
FellShort(pr) ==
    \/ pr.ikind = "none"
    \/ pr.ikind = "closed" /\ pr.ioff < Len(idata[pr.iino])
    \/ pr.ikind = "stdin" /\ stdinData # << >>

\* C16: for the producer of a call that has returned: if it ended short of
\* its input it closed the pipe with an error; whenever the pipe was closed
\* with an error, or the consumer closed its end on a failure, the call
\* returned an error; and a call that returned nil had a producer that read
\* all its input, a consumer that ended cleanly, and (file to file) an output
\* holding the whole transformed input.
C16_NoSilentFailure ==
    \A i \in Jobs :
        (pf[i].pc = "ret" /\ pf[i].pk > 0) =>
            LET pr == prods[i][pf[i].pk]
            IN  /\ (pr.pc = "done" /\ FellShort(pr)) => pr.werr # "none"
                /\ (pr.werr # "none" \/ pr.cres = "err") => pf[i].err # "none"
                /\ pf[i].err = "none" =>
                    /\ pr.pc = "done"
                    /\ ~FellShort(pr)
                    /\ pr.cres = "ok"
                    /\ (pr.ikind = "closed" /\ pf[i].okind = "closed") =>
                        idata[pf[i].oino] = Transform(idata[pr.iino])

\* a read error of the producer, after part of the input went through, has
\* become the error of the call
C16_Witness ==
    \E i \in Jobs :
        /\ pf[i].pc = "ret" /\ pf[i].pk > 0
        /\ prods[i][pf[i].pk].werr = "read"
        /\ prods[i][pf[i].pk].ioff > 0
        /\ pf[i].err = "read"

(***************************************************************************)
(* C17: no producer stays blocked                                          *)
(***************************************************************************)
\* the consumer of pipe k of job i is still going to read it or to close it
ConsumerOn(i, k) == pf[i].pk = k /\ pf[i].pc \in { "create", "copy" }

\* producer k of job i waits in a pipe write that nothing will end
BlockedForever(i, k) ==
    /\ prods[i][k].pc \in { "wait", "zwait" }
    /\ prods[i][k].buf # << >>
    /\ ~prods[i][k].rclosed
    /\ ~ConsumerOn(i, k)

\* C17: on every path by which processFile leaves a pipe it has closed the
\* read end, whichever side failed first; so no producer waits in a write
\* that nothing will end, and while the process runs every producer that has
\* not ended can take a step or has a consumer that can.
C17_ProducerUnblocked ==
    \A i \in Jobs : \A k \in 1..Len(prods[i]) :
        /\ ConsumerOn(i, k) \/ prods[i][k].rclosed
        /\ ~BlockedForever(i, k)
        /\ (Running /\ prods[i][k].pc # "done") =>
            \/ ENABLED P_Open(i, k) \/ ENABLED P_Read(i, k) \/ ENABLED P_Wait(i, k)
            \/ ENABLED P_LogLock(i, k) \/ ENABLED P_Report(i, k)
            \/ ENABLED P_ZClose(i, k) \/ ENABLED P_ZWait(i, k)
            \/ (ConsumerOn(i, k) /\ (ENABLED PF_Create(i) \/ ENABLED PF_Copy(i)))

\* the consumer has failed and left while its producer waits in a write: the
\* closed read end is what lets the producer go on
C17_Witness ==
    \E i \in Jobs : \E k \in 1..Len(prods[i]) :
        /\ prods[i][k].pc = "wait"
        /\ prods[i][k].buf # << >>
        /\ prods[i][k].rclosed
        /\ pf[i].pc = "ret" /\ pf[i].err # "none"

(***************************************************************************)
(* C18: the verbose summary of a compression                               *)
(***************************************************************************)
\* the producer of the call that printed summary line l
SummaryProducer(l) ==
    CHOOSE k \in 1..Len(prods[l.job]) : prods[l.job][k].call = l.call

\* C18 as the claim states it: once the call that printed a summary has
\* returned, it has returned nil, and the counts of the summary are the
\* counters of the encoder after its Close.
C18_SummaryIsFinal ==
    \A l \in stderr :
        (l.kind = "summary" /\ pf[l.job].pc = "ret" /\ ncalls[l.job] = l.call) =>
            /\ pf[l.job].err = "none"
            /\ prods[l.job][SummaryProducer(l)].pc = "done" =>
                /\ l.in = prods[l.job][SummaryProducer(l)].zin
                /\ l.out = prods[l.job][SummaryProducer(l)].zout

(***************************************************************************)
(* C19: workers, arguments and the files of a directory                    *)
(***************************************************************************)
\* C19 as the claim states it: every file-level job has a worker of its own,
\* admitted through the gate by itself, so no job goroutine runs processFile
\* more than once.
C19_OneWorkerPerFile == \A i \in Jobs : ncalls[i] <= 1

(***************************************************************************)
(* C20: the streams of the jobs on the shared standard output              *)
(***************************************************************************)
\* C20: with -c, everything one job writes to the standard output is one
\* contiguous block of it: between two writes of a job there is no write
\* of another job.
C20_StdoutNotInterleaved ==
    \A m, n \in 1..Len(stdoutLog) :
        (m < n /\ stdoutLog[m].job = stdoutLog[n].job) =>
            \A k \in m..n : stdoutLog[k].job = stdoutLog[m].job

====
